---- MODULE Spec2Model ----
(***************************************************************************)
(* A model of the order examples of pocket-ai-dev:                         *)
(*   - the Order aggregate (layered_architecture_example.py),              *)
(*   - the CQRS command handler, projection and query service              *)
(*     (cqrs_pattern_example.py),                                          *)
(*   - the OrderService domain service (hexagonal_architecture_example.py),*)
(*   - the event store the command handler appends to, which the sources   *)
(*     only call,                                                          *)
(*   - OrderApplicationService.create_order                                *)
(*     (layered_architecture_example.py),                                  *)
(*   - PerformanceMonitor (metrics_collector.py).                          *)
(* The specifications share the variables: SpecOrder (the aggregate),      *)
(* Spec (the CQRS paths; SpecLive is Spec under fair scheduling),          *)
(* SpecStore (the event store under concurrent callers), SpecService       *)
(* (process_order), SpecApp (create_order) and SpecMonitor                 *)
(* (monitor_endpoint).                                                     *)
(***************************************************************************)
EXTENDS Integers, Sequences, FiniteSets

\* ---------------------------------------------------------------- bounds
MaxItems == 3
MaxCreateItems == 2
MaxCmds == 2
MaxDeliveries == 3
MaxClients == 3
MaxStreamLen == 3
MaxBatch == 2
MaxCalls == 2
MaxRetries == 1
MaxAppCalls == 2
MaxRuns == 2

VARIABLES
    order,              \* SpecOrder: the Order object under test, or NoOrder
    lastCall,           \* SpecOrder: the last call made on it and its outcome
    handlers,           \* Spec: one OrderCommandHandler.handle coroutine per command
    next_uuid,          \* Spec: the next value uuid4() hands out
    repository,         \* Spec: OrderRepository, order id -> saved order
    event_store,        \* Spec, SpecStore: EventStore, aggregate id -> stream
    order_summary,      \* Spec: the rows of the order_summary table
    unique_id,          \* Spec: whether order_summary.id carries a unique key
    projection_errors,  \* Spec: deliveries whose handler raised
    delivered,          \* Spec: the events delivered to the projection, in order
    query_result,       \* Spec: what get_order_summary returned in the last step
    clients,            \* SpecStore: the concurrent callers of the event store
    attempts,           \* SpecStore: every append attempt and its outcome
    svc_order,          \* SpecService: the Order object passed to process_order
    calls,              \* SpecService: one process_order coroutine per call
    charges,            \* SpecService: the charges the gateway created
    notifications,      \* SpecService: the order_created e-mails sent
    svc_repo,           \* SpecService: the order as last saved
    retries,            \* SpecService: the calls made again after they ended
    app_calls,          \* SpecApp: one create_order coroutine per call
    app_pending,        \* SpecApp: the orders saved in a unit of work not yet committed
    app_committed,      \* SpecApp: the orders of committed units of work
    app_commits,        \* SpecApp: the calls whose unit of work was committed
    mon,                \* SpecMonitor: the monitor_endpoint coroutine
    mon_runs,           \* SpecMonitor: the calls of monitor_endpoint made
    stored_metrics,     \* SpecMonitor: the metrics records stored
    alerts_sent         \* SpecMonitor: the alerts handed to the alert service

orderVars == <<order, lastCall>>
cqrsVars == <<handlers, next_uuid, repository, order_summary, unique_id,
              projection_errors, delivered, query_result>>
storeVars == <<clients, attempts>>
svcVars == <<svc_order, calls, charges, notifications, svc_repo, retries>>
appVars == <<app_calls, app_pending, app_committed, app_commits>>
monVars == <<mon, mon_runs, stored_metrics, alerts_sent>>
vars == <<order, lastCall, handlers, next_uuid, repository, event_store,
          order_summary, unique_id, projection_errors, delivered, query_result,
          clients, attempts, svc_order, calls, charges, notifications,
          svc_repo, retries, app_calls, app_pending, app_committed,
          app_commits, mon, mon_runs, stored_metrics, alerts_sent>>

None == "None"
\* no Order object (Python's None where an Order is expected)
NoOrder == [id |-> 0, customer_id |-> "", status |-> "NONE", items |-> <<>>,
            total_amount |-> [amount |-> 0, currency |-> ""]]

\* get_order_summary returning None
NoSummary == [id |-> 0, customer_name |-> "", total_amount |-> [amount |-> 0, currency |-> ""],
              status |-> "", created_at |-> [order_id |-> 0, sequenceNumber |-> 0]]

\* no get_order_summary call returned in the last step
NoQuery == [order_id |-> 0, result |-> NoSummary]

\* ------------------------------------------------------- inputs (small sets)
Customers == {"c1", "c2"}
\* the rows of the customers table the query joins with
KnownCustomers == {"c1"}

OrderItem(p, q, u) == [product_id |-> p, quantity |-> q, unit_price |-> u]
\* a valid item, a second valid item, one with quantity 0, one with a negative price
Items == {OrderItem("p1", 2, 10), OrderItem("p2", 3, 7),
          OrderItem("p3", 0, 10), OrderItem("p4", 1, -5)}

RECURSIVE SeqsUpTo(_, _)
SeqsUpTo(S, n) ==
    IF n = 0 THEN {<<>>}
    ELSE LET shorter == SeqsUpTo(S, n - 1)
         IN shorter \cup {Append(s, x) : s \in {t \in shorter : Len(t) = n - 1}, x \in S}

\* ------------------------------------------------------------ Money, Order
Money(a, c) == [amount |-> a, currency |-> c]
Money_add(m, n) == Money(m.amount + n.amount, m.currency)
Money_multiply(m, k) == Money(m.amount * k, m.currency)

\* Order.__init__
Order_init(id, customer_id) ==
    [id |-> id, customer_id |-> customer_id, status |-> "CREATED",
     items |-> <<>>, total_amount |-> Money(0, "JPY")]

\* a mutant: the item is appended before the status is checked
add_item_append_first(o, item) ==
    IF o.status # "CREATED"
    THEN [error |-> "OrderError", order |-> [o EXCEPT !.items = Append(@, item)]]
    ELSE [error |-> None,
          order |-> [o EXCEPT !.items = Append(@, item),
                              !.total_amount =
                                  Money_add(@, Money_multiply(Money(item.unit_price, "JPY"),
                                                              item.quantity))]]

\* a mutant: the total is recomputed from the unit price alone
add_item_no_quantity(o, item) ==
    IF o.status # "CREATED"
    THEN [error |-> "OrderError", order |-> o]
    ELSE [error |-> None,
          order |-> [o EXCEPT !.items = Append(@, item),
                              !.total_amount = Money_add(@, Money(item.unit_price, "JPY"))]]

\* Order.add_item: the error raised (or None) and the order afterwards
add_item(o, item) ==
    IF o.status # "CREATED"
    THEN [error |-> "OrderError", order |-> o]
    ELSE [error |-> None,
          order |-> [o EXCEPT !.items = Append(@, item),
                              !.total_amount =
                                  Money_add(@, Money_multiply(Money(item.unit_price, "JPY"),
                                                              item.quantity))]]

\* the loop of Order.create: add_item for each item, stopping at the first raise
RECURSIVE add_items(_, _)
add_items(o, items) ==
    IF items = <<>> THEN [error |-> None, order |-> o]
    ELSE LET r == add_item(o, Head(items))
         IN IF r.error # None THEN r ELSE add_items(r.order, Tail(items))

\* Order.create
create(id, customer_id, items) == add_items(Order_init(id, customer_id), items)

\* Order.confirm, which the sources call and do not define
confirm(o) ==
    IF o.status # "CREATED" \/ o.items = <<>>
    THEN [error |-> "OrderError", order |-> o]
    ELSE [error |-> None, order |-> [o EXCEPT !.status = "CONFIRMED"]]

RECURSIVE SumItems(_)
SumItems(items) ==
    IF items = <<>> THEN 0
    ELSE Head(items).unit_price * Head(items).quantity + SumItems(Tail(items))

InvalidItems(items) ==
    items = <<>> \/ \E i \in 1..Len(items) : items[i].quantity <= 0 \/ items[i].unit_price < 0

\* ------------------------------------------------------------ EventStore
\* a mutant: every batch is numbered from 1
Stamp_from_one(newEvents, expectedVersion) ==
    [k \in 1..Len(newEvents) |-> [newEvents[k] EXCEPT !.sequenceNumber = k]]

\* the events of newEvents numbered expectedVersion + 1, expectedVersion + 2, ...
Stamp(newEvents, expectedVersion) ==
    [k \in 1..Len(newEvents) |-> [newEvents[k] EXCEPT !.sequenceNumber = expectedVersion + k]]

\* a mutant: the append does not compare the stream's length with expectedVersion
append_unchecked(store, aggregateId, expectedVersion, newEvents) ==
    [error |-> None,
     store |-> [store EXCEPT ![aggregateId] = @ \o Stamp(newEvents, Len(@))]]

\* EventStore.append: all of newEvents if the stream's length is expectedVersion,
\* else ConcurrencyConflict and nothing
append(store, aggregateId, expectedVersion, newEvents) ==
    IF Len(store[aggregateId]) = expectedVersion
    THEN [error |-> None,
          store |-> [store EXCEPT ![aggregateId] = @ \o Stamp(newEvents, expectedVersion)]]
    ELSE [error |-> "ConcurrencyConflict", store |-> store]

\* EventStore.loadStream: the stream, empty for an unknown aggregate
loadStream(store, aggregateId) == store[aggregateId]

\* ======================================================================
\* SpecOrder: one Order object under create, add_item and confirm
\* ======================================================================
ItemLists == SeqsUpTo(Items, MaxCreateItems)

CqrsIdle ==
    /\ handlers = [c \in 1..MaxCmds |-> [pc |-> "idle", order |-> NoOrder, events |-> <<>>, i |-> 0]]
    /\ next_uuid = 1
    /\ repository = [id \in 1..MaxCmds |-> NoOrder]
    /\ order_summary = <<>>
    /\ unique_id = TRUE
    /\ projection_errors = 0
    /\ delivered = <<>>
    /\ query_result = NoQuery

StoreIdle ==
    /\ clients = [c \in 1..MaxClients |->
                    [pc |-> "idle", aggregateId |-> 0, expectedVersion |-> 0, round |-> 0]]
    /\ attempts = {}

ServiceIdle ==
    /\ svc_order = NoOrder
    /\ calls = [p \in 1..MaxCalls |-> "idle"]
    /\ charges = 0
    /\ notifications = 0
    /\ svc_repo = NoOrder
    /\ retries = 0

EmptyStore == [a \in 1..MaxCmds |-> <<>>]

\* no command given to a call
NoCommand == [customer_id |-> "", items |-> <<>>]

AppIdle ==
    /\ app_calls = [p \in 1..MaxAppCalls |-> [pc |-> "idle", command |-> NoCommand, order |-> NoOrder]]
    /\ app_pending = {}
    /\ app_committed = {}
    /\ app_commits = {}

\* no metrics collected
NoMetrics == [response_time |-> 0, error_rate |-> 0, throughput |-> 0]

MonitorIdle ==
    /\ mon = [pc |-> "idle", metrics |-> NoMetrics, stored |-> FALSE,
              alert_due |-> FALSE, alerted |-> FALSE]
    /\ mon_runs = 0
    /\ stored_metrics = 0
    /\ alerts_sent = 0

InitOrder ==
    /\ order = NoOrder
    /\ lastCall = [op |-> "none", arg |-> <<>>, pre |-> NoOrder, error |-> None]
    /\ event_store = EmptyStore
    /\ CqrsIdle /\ StoreIdle /\ ServiceIdle /\ AppIdle /\ MonitorIdle

\* order = Order.create(customer_id, items): a raise leaves the caller without an order
OrderCreate(customer_id, items) ==
    LET r == create(1, customer_id, items)
    IN /\ order' = IF r.error = None THEN r.order ELSE NoOrder
       /\ lastCall' = [op |-> "create", arg |-> items, pre |-> NoOrder, error |-> r.error]
       /\ UNCHANGED <<event_store, cqrsVars, storeVars, svcVars, appVars, monVars>>

\* order.add_item(item)
OrderAddItem(item) ==
    /\ order # NoOrder
    /\ Len(order.items) < MaxItems
    /\ LET r == add_item(order, item)
       IN /\ order' = r.order
          /\ lastCall' = [op |-> "add_item", arg |-> item, pre |-> order, error |-> r.error]
    /\ UNCHANGED <<event_store, cqrsVars, storeVars, svcVars, appVars, monVars>>

\* order.confirm()
OrderConfirm ==
    /\ order # NoOrder
    /\ LET r == confirm(order)
       IN /\ order' = r.order
          /\ lastCall' = [op |-> "confirm", arg |-> <<>>, pre |-> order, error |-> r.error]
    /\ UNCHANGED <<event_store, cqrsVars, storeVars, svcVars, appVars, monVars>>

NextOrder ==
    \/ \E c \in Customers, items \in ItemLists : OrderCreate(c, items)
    \/ \E item \in Items : OrderAddItem(item)
    \/ OrderConfirm

SpecOrder == InitOrder /\ [][NextOrder]_vars

\* C6: in every reachable state of an Order, after create and after any
\* sequence of add_item calls, successful or failed, total_amount equals the
\* sum over the order's items of unit_price * quantity.
C6_TotalIsSumOfItems ==
    order # NoOrder => order.total_amount.amount = SumItems(order.items)

C6_Witness ==
    /\ order # NoOrder
    /\ lastCall.op = "add_item"
    /\ lastCall.error = None
    /\ Len(order.items) = MaxItems
    /\ order.total_amount.amount > 20

\* C7: add_item on an Order whose status is not CREATED always raises
\* OrderError, and the failed call leaves items, total_amount and status as
\* they were.
C7_AddItemRejectedWhenNotCreated ==
    (lastCall.op = "add_item" /\ lastCall.pre.status # "CREATED")
        => /\ lastCall.error = "OrderError"
           /\ order.items = lastCall.pre.items
           /\ order.total_amount = lastCall.pre.total_amount
           /\ order.status = lastCall.pre.status

C7_Witness ==
    /\ lastCall.op = "add_item"
    /\ lastCall.pre.status = "CONFIRMED"
    /\ lastCall.error = "OrderError"
    /\ order = lastCall.pre

\* C8: Order.create fails with ValidationError, producing no order, whenever
\* the item list is empty or an item has quantity <= 0 or unit_price < 0; on
\* success the new order has status CREATED.
C8_CreateValidates ==
    lastCall.op = "create"
        => IF InvalidItems(lastCall.arg)
           THEN lastCall.error = "ValidationError" /\ order = NoOrder
           ELSE lastCall.error = None /\ order.status = "CREATED"

\* ======================================================================
\* SpecService: OrderService.process_order, called several times, possibly
\* concurrently, on one Order object. A coroutine yields at its awaits only.
\* ======================================================================
InitService ==
    /\ svc_order \in {create(1, "c1", items).order :
                        items \in {<<>>} \cup {<<i>> : i \in {j \in Items : ~InvalidItems(<<j>>)}}}
    /\ calls = [p \in 1..MaxCalls |-> "idle"]
    /\ charges = 0
    /\ notifications = 0
    /\ svc_repo = svc_order
    /\ retries = 0
    /\ order = NoOrder
    /\ lastCall = [op |-> "none", arg |-> <<>>, pre |-> NoOrder, error |-> None]
    /\ event_store = EmptyStore
    /\ CqrsIdle /\ StoreIdle /\ AppIdle /\ MonitorIdle

\* process_order up to its first await: process_payment is called
process_payment(p) ==
    /\ calls[p] = "idle"
    /\ calls' = [calls EXCEPT ![p] = "paying"]
    /\ UNCHANGED <<svc_order, charges, notifications, svc_repo, retries>>
    /\ UNCHANGED <<orderVars, event_store, cqrsVars, storeVars, appVars, monVars>>

\* a mutant: the order is confirmed before the payment's result is looked at
payment_result_confirm_first(p, success) ==
    /\ calls[p] = "paying"
    /\ charges' = IF success THEN charges + 1 ELSE charges
    /\ LET r == confirm(svc_order)
       IN /\ svc_order' = r.order
          /\ calls' = [calls EXCEPT ![p] = IF ~success THEN "PaymentError"
                                           ELSE IF r.error = None THEN "saving" ELSE r.error]
    /\ UNCHANGED <<notifications, svc_repo, retries>>
    /\ UNCHANGED <<orderVars, event_store, cqrsVars, storeVars, appVars, monVars>>

\* StripePaymentAdapter.process_payment answers: a success is a new charge (the
\* request carries no idempotency key). The coroutine then runs to its next
\* await: it raises PaymentError, or confirms the order and calls save.
payment_result(p, success) ==
    /\ calls[p] = "paying"
    /\ charges' = IF success THEN charges + 1 ELSE charges
    /\ IF ~success
       THEN /\ calls' = [calls EXCEPT ![p] = "PaymentError"]
            /\ UNCHANGED svc_order
       ELSE LET r == confirm(svc_order)
            IN /\ svc_order' = r.order
               /\ calls' = [calls EXCEPT ![p] = IF r.error = None THEN "saving" ELSE r.error]
    /\ UNCHANGED <<notifications, svc_repo, retries>>
    /\ UNCHANGED <<orderVars, event_store, cqrsVars, storeVars, appVars, monVars>>

\* self._order_repo.save(order) completes; notify_order_created is called
save_done(p) ==
    /\ calls[p] = "saving"
    /\ svc_repo' = svc_order
    /\ calls' = [calls EXCEPT ![p] = "notifying"]
    /\ UNCHANGED <<svc_order, charges, notifications, retries>>
    /\ UNCHANGED <<orderVars, event_store, cqrsVars, storeVars, appVars, monVars>>

\* EmailNotificationAdapter.notify_order_created sends; process_order returns
notify_done(p) ==
    /\ calls[p] = "notifying"
    /\ notifications' = notifications + 1
    /\ calls' = [calls EXCEPT ![p] = "done"]
    /\ UNCHANGED <<svc_order, charges, svc_repo, retries>>
    /\ UNCHANGED <<orderVars, event_store, cqrsVars, storeVars, appVars, monVars>>

\* the caller calls process_order again on the same order after a call ended
call_again(p) ==
    /\ calls[p] \in {"done", "PaymentError", "OrderError"}
    /\ retries < MaxRetries
    /\ retries' = retries + 1
    /\ calls' = [calls EXCEPT ![p] = "idle"]
    /\ UNCHANGED <<svc_order, charges, notifications, svc_repo>>
    /\ UNCHANGED <<orderVars, event_store, cqrsVars, storeVars, appVars, monVars>>

NextService ==
    \/ \E p \in 1..MaxCalls : process_payment(p)
    \/ \E p \in 1..MaxCalls, success \in BOOLEAN : payment_result(p, success)
    \/ \E p \in 1..MaxCalls : save_done(p)
    \/ \E p \in 1..MaxCalls : notify_done(p)
    \/ \E p \in 1..MaxCalls : call_again(p)

SpecService == InitService /\ [][NextService]_vars

\* C9: across any number of repeated or concurrent process_order calls on
\* the same order, the payment gateway charges the order at most once and
\* the order-created notification is sent at most once.
C9_ChargedAndNotifiedAtMostOnce == charges <= 1 /\ notifications <= 1

\* ======================================================================
\* SpecStore: the event store under concurrent callers. Each caller loads a
\* stream, takes its length as expectedVersion and appends a batch, once.
\* ======================================================================
StoreAggregates == {1, 2}

InitStore ==
    /\ event_store = EmptyStore
    /\ StoreIdle
    /\ order = NoOrder
    /\ lastCall = [op |-> "none", arg |-> <<>>, pre |-> NoOrder, error |-> None]
    /\ CqrsIdle /\ ServiceIdle /\ AppIdle /\ MonitorIdle

\* the batch a caller appends in a round: n events carrying the caller's mark
NewEvents(c, round, aggregateId, n) ==
    [k \in 1..n |-> [order_id |-> aggregateId, sequenceNumber |-> 0,
                     type |-> "ItemAdded", payload |-> <<c, round, k>>]]

\* step 1 of a command: load the stream, its length is the version
StoreLoad(c, aggregateId) ==
    /\ clients[c].pc = "idle"
    /\ clients' = [clients EXCEPT ![c] =
                      [pc |-> "loaded", aggregateId |-> aggregateId,
                       expectedVersion |-> Len(loadStream(event_store, aggregateId)),
                       round |-> @.round + 1]]
    /\ UNCHANGED <<event_store, attempts>>
    /\ UNCHANGED <<orderVars, cqrsVars, svcVars, appVars, monVars>>

\* step 3 of a command: append n new events with the version read in step 1
StoreAppend(c, n) ==
    /\ clients[c].pc = "loaded"
    /\ clients[c].expectedVersion + n <= MaxStreamLen
    /\ LET a == clients[c].aggregateId
           v == clients[c].expectedVersion
           new == NewEvents(c, clients[c].round, a, n)
           r == append(event_store, a, v, new)
       IN /\ event_store' = r.store
          /\ clients' = [clients EXCEPT ![c].pc = IF r.error = None THEN "ok" ELSE r.error]
          /\ attempts' = attempts \cup
                 {[client |-> c, round |-> clients[c].round, aggregateId |-> a,
                   expectedVersion |-> v, events |-> Stamp(new, v), error |-> r.error,
                   before |-> event_store[a], after |-> r.store[a]]}
    /\ UNCHANGED <<orderVars, cqrsVars, svcVars, appVars, monVars>>

NextStore ==
    \/ \E c \in 1..MaxClients, a \in StoreAggregates : StoreLoad(c, a)
    \/ \E c \in 1..MaxClients, n \in 1..MaxBatch : StoreAppend(c, n)

SpecStore == InitStore /\ [][NextStore]_vars

AttemptsAt(a, v) == {t \in attempts : t.aggregateId = a /\ t.expectedVersion = v}

\* C1: of the append attempts made on one aggregate with one expectedVersion,
\* exactly one succeeds and every other receives ConcurrencyConflict; the
\* winner's append adds exactly its events to what the stream held, a loser's
\* adds nothing, and the stream holds the winner's events at the sequence
\* numbers after expectedVersion.
C1_AppendAtomicity ==
    \A a \in StoreAggregates, v \in 0..MaxStreamLen :
        LET A == AttemptsAt(a, v)
            W == {t \in A : t.error = None}
        IN /\ A # {} => Cardinality(W) = 1
           /\ \A t \in A \ W : t.error = "ConcurrencyConflict" /\ t.after = t.before
           /\ \A t \in W :
                 /\ t.after = t.before \o t.events
                 /\ Len(t.before) = v
                 /\ Len(event_store[a]) >= v + Len(t.events)
                 /\ SubSeq(event_store[a], v + 1, v + Len(t.events)) = t.events
                 /\ \A k \in 1..Len(t.events) : t.events[k].sequenceNumber = v + k

\* three callers raced on one aggregate and one version: one won, two lost
C1_Witness ==
    \E a \in StoreAggregates, v \in 0..MaxStreamLen :
        /\ Cardinality({t.client : t \in AttemptsAt(a, v)}) = MaxClients
        /\ Cardinality({t \in AttemptsAt(a, v) : t.error = "ConcurrencyConflict"}) >= 2
        /\ \E t \in AttemptsAt(a, v) : t.error = None /\ Len(t.events) = 2

\* ======================================================================
\* Spec: the CQRS example. OrderCommandHandler.handle runs once per command
\* as a coroutine that yields at its awaits; the events in the store reach
\* OrderSummaryProjection at least once and in any order; OrderQueryService
\* reads the order_summary table.
\* ======================================================================
\* the CreateOrderCommand values handled: a valid one, and one without items
\* for a customer the customers table does not hold
Commands ==
    {[customer_id |-> "c1", items |-> <<OrderItem("p1", 2, 10)>>],
     [customer_id |-> "c2", items |-> <<>>]}

Init ==
    /\ handlers = [c \in 1..MaxCmds |-> [pc |-> "idle", order |-> NoOrder, events |-> <<>>, i |-> 0]]
    /\ next_uuid = 1
    /\ repository = [id \in 1..MaxCmds |-> NoOrder]
    /\ event_store = EmptyStore
    /\ order_summary = <<>>
    /\ unique_id \in BOOLEAN
    /\ projection_errors = 0
    /\ delivered = <<>>
    /\ query_result = NoQuery
    /\ order = NoOrder
    /\ lastCall = [op |-> "none", arg |-> <<>>, pre |-> NoOrder, error |-> None]
    /\ StoreIdle /\ ServiceIdle /\ AppIdle /\ MonitorIdle

Range(s) == {s[k] : k \in 1..Len(s)}

\* event.timestamp: the time an event occurred, one value per event
occurred_at(order_id, sequenceNumber) ==
    [order_id |-> order_id, sequenceNumber |-> sequenceNumber]
\* a column that is NULL
NoTime == [order_id |-> 0, sequenceNumber |-> 0]

\* order.domain_events of a new order: the OrderCreated event, sequence 1
domain_events(o, now) ==
    <<[order_id |-> o.id, sequenceNumber |-> 1, type |-> "OrderCreated",
       customer_id |-> o.customer_id, total_amount |-> o.total_amount, timestamp |-> now]>>

\* handle, lines 26-36: Order.create with a fresh uuid4; then save is awaited
handle_create(c, command) ==
    /\ handlers[c].pc = "idle"
    /\ \A b \in 1..(c - 1) : handlers[b].pc # "idle"
    /\ LET r == create(next_uuid, command.customer_id, command.items)
       IN handlers' = [handlers EXCEPT ![c] =
              IF r.error # None
              THEN [pc |-> r.error, order |-> NoOrder, events |-> <<>>, i |-> 0]
              ELSE [pc |-> "save", order |-> r.order,
                    events |-> domain_events(r.order, occurred_at(r.order.id, 1)), i |-> 0]]
    /\ next_uuid' = next_uuid + 1
    /\ UNCHANGED <<repository, event_store, order_summary, unique_id, projection_errors,
                   delivered>>
    /\ query_result' = NoQuery
    /\ UNCHANGED <<orderVars, storeVars, svcVars, appVars, monVars>>

\* a mutant: the handler goes on to the appends without saving the order
handle_save_skipped(c) ==
    /\ handlers[c].pc = "save"
    /\ handlers' = [handlers EXCEPT ![c].pc = "append", ![c].i = 1]
    /\ UNCHANGED <<repository, next_uuid, event_store, order_summary, unique_id,
                   projection_errors, delivered>>
    /\ query_result' = NoQuery
    /\ UNCHANGED <<orderVars, storeVars, svcVars, appVars, monVars>>

\* handle, line 38: repository.save(order) completes; the first append is awaited
handle_save(c) ==
    /\ handlers[c].pc = "save"
    /\ repository' = [repository EXCEPT ![handlers[c].order.id] = handlers[c].order]
    /\ handlers' = [handlers EXCEPT
           ![c].pc = IF handlers[c].events = <<>> THEN "done" ELSE "append",
           ![c].i = 1]
    /\ UNCHANGED <<next_uuid, event_store, order_summary, unique_id,
                   projection_errors, delivered>>
    /\ query_result' = NoQuery
    /\ UNCHANGED <<orderVars, storeVars, svcVars, appVars, monVars>>

\* INSERT INTO order_summary: with a unique key on id a second row is refused
handle_order_created(rows, unique, event) ==
    IF unique /\ \E k \in 1..Len(rows) : rows[k].id = event.order_id
    THEN [error |-> "IntegrityError", rows |-> rows]
    ELSE [error |-> None,
          rows |-> Append(rows, [id |-> event.order_id, customer_id |-> event.customer_id,
                                 total_amount |-> event.total_amount.amount,
                                 currency |-> event.total_amount.currency,
                                 status |-> "created", created_at |-> event.timestamp,
                                 updated_at |-> NoTime])]

\* a mutant: the UPDATE has lost its WHERE clause
handle_order_confirmed_everywhere(rows, unique, event) ==
    [error |-> None,
     rows |-> [k \in 1..Len(rows) |->
                  [rows[k] EXCEPT !.status = "confirmed", !.updated_at = event.timestamp]]]

\* UPDATE order_summary SET status, updated_at WHERE id = :id
handle_order_confirmed(rows, unique, event) ==
    [error |-> None,
     rows |-> [k \in 1..Len(rows) |->
                  IF rows[k].id = event.order_id
                  THEN [rows[k] EXCEPT !.status = "confirmed", !.updated_at = event.timestamp]
                  ELSE rows[k]]]

\* the projection's handler for an event, by the event's type
project(rows, unique, event) ==
    IF event.type = "OrderCreated" THEN handle_order_created(rows, unique, event)
    ELSE IF event.type = "OrderConfirmed" THEN handle_order_confirmed(rows, unique, event)
    ELSE [error |-> None, rows |-> rows]

\* a mutant: the command path writes the summary row itself after the append
handle_append_projecting(c) ==
    /\ handlers[c].pc = "append"
    /\ LET e == handlers[c].events[handlers[c].i]
           r == append(event_store, e.order_id, e.sequenceNumber - 1, <<e>>)
       IN /\ event_store' = r.store
          /\ order_summary' = IF r.error = None
                              THEN project(order_summary, FALSE, e).rows ELSE order_summary
          /\ handlers' = [handlers EXCEPT ![c] =
                 IF r.error # None THEN [@ EXCEPT !.pc = r.error]
                 ELSE IF @.i = Len(@.events) THEN [@ EXCEPT !.pc = "done"]
                 ELSE [@ EXCEPT !.i = @ + 1]]
    /\ UNCHANGED <<repository, next_uuid, unique_id, projection_errors,
                   delivered>>
    /\ query_result' = NoQuery
    /\ UNCHANGED <<orderVars, storeVars, svcVars, appVars, monVars>>

\* handle, lines 40-43: event_store.append(event) completes for the i-th event;
\* the next append is awaited, or the loop is over and handle returns order.id
handle_append(c) ==
    /\ handlers[c].pc = "append"
    /\ LET e == handlers[c].events[handlers[c].i]
           r == append(event_store, e.order_id, e.sequenceNumber - 1, <<e>>)
       IN /\ event_store' = r.store
          /\ handlers' = [handlers EXCEPT ![c] =
                 IF r.error # None THEN [@ EXCEPT !.pc = r.error]
                 ELSE IF @.i = Len(@.events) THEN [@ EXCEPT !.pc = "done"]
                 ELSE [@ EXCEPT !.i = @ + 1]]
    /\ UNCHANGED <<repository, next_uuid, order_summary, unique_id,
                   projection_errors, delivered>>
    /\ query_result' = NoQuery
    /\ UNCHANGED <<orderVars, storeVars, svcVars, appVars, monVars>>

\* the task running handle is cancelled while it waits at an await
handle_cancel(c) ==
    /\ handlers[c].pc \in {"save", "append"}
    /\ handlers' = [handlers EXCEPT ![c].pc = "cancelled"]
    /\ UNCHANGED <<repository, next_uuid, event_store, order_summary, unique_id,
                   projection_errors, delivered>>
    /\ query_result' = NoQuery
    /\ UNCHANGED <<orderVars, storeVars, svcVars, appVars, monVars>>

\* the confirm command of an order: the stream is loaded, the order it replays
\* to is CREATED and has items, and OrderConfirmed is appended at the next
\* sequence number
confirm_order(id) ==
    /\ repository[id] # NoOrder
    /\ LET stream == loadStream(event_store, id)
           o == repository[id]
           e == [order_id |-> id, sequenceNumber |-> Len(stream) + 1,
                 type |-> "OrderConfirmed", customer_id |-> o.customer_id,
                 total_amount |-> o.total_amount, timestamp |-> occurred_at(id, Len(stream) + 1)]
       IN /\ stream # <<>>
          /\ \A k \in 1..Len(stream) : stream[k].type # "OrderConfirmed"
          /\ confirm(o).error = None
          /\ event_store' = append(event_store, id, Len(stream), <<e>>).store
    /\ UNCHANGED <<handlers, repository, next_uuid, order_summary, unique_id,
                   projection_errors, delivered>>
    /\ query_result' = NoQuery
    /\ UNCHANGED <<orderVars, storeVars, svcVars, appVars, monVars>>

\* an event of the store is delivered to the projection (again, or out of order)
deliver(event) ==
    /\ Len(delivered) < MaxDeliveries
    /\ LET r == project(order_summary, unique_id, event)
       IN /\ order_summary' = r.rows
          /\ projection_errors' = IF r.error = None THEN projection_errors
                                  ELSE projection_errors + 1
    /\ delivered' = Append(delivered, event)
    /\ UNCHANGED <<handlers, repository, next_uuid, event_store, unique_id>>
    /\ query_result' = NoQuery
    /\ UNCHANGED <<orderVars, storeVars, svcVars, appVars, monVars>>

\* OrderQueryService.get_order_summary: the row joined with its customer, or None
get_order_summary(rows, order_id) ==
    LET found == {k \in 1..Len(rows) :
                     rows[k].id = order_id /\ rows[k].customer_id \in KnownCustomers}
    IN IF found = {} THEN NoSummary
       ELSE LET result == rows[CHOOSE k \in found : \A j \in found : k <= j]
            IN [id |-> result.id, customer_name |-> result.customer_id,
                total_amount |-> Money(result.total_amount, result.currency),
                status |-> result.status, created_at |-> result.created_at]

\* a call of get_order_summary returns; query_result is the value returned in
\* the last step, NoQuery after every other step
query(order_id) ==
    /\ query_result' = [order_id |-> order_id,
                        result |-> get_order_summary(order_summary, order_id)]
    /\ UNCHANGED <<handlers, repository, next_uuid, event_store, order_summary,
                   unique_id, projection_errors, delivered>>
    /\ UNCHANGED <<orderVars, storeVars, svcVars, appVars, monVars>>

StoredEvents == UNION {Range(event_store[a]) : a \in 1..MaxCmds}

Next ==
    \/ \E c \in 1..MaxCmds, command \in Commands : handle_create(c, command)
    \/ \E c \in 1..MaxCmds : handle_save(c)
    \/ \E c \in 1..MaxCmds : handle_append(c)
    \/ \E c \in 1..MaxCmds : handle_cancel(c)
    \/ \E id \in 1..MaxCmds : confirm_order(id)
    \/ \E event \in StoredEvents : deliver(event)
    \/ \E id \in 1..MaxCmds : query(id)

Spec == Init /\ [][Next]_vars

\* ---------------------------------------------- what the projection computes
\* the rows of one order
RowsOf(rows, id) == SelectSeq(rows, LAMBDA row : row.id = id)

\* the events of one order among those delivered, in the order of delivery
DeliveredTo(id) == SelectSeq(delivered, LAMBDA e : e.order_id = id)

\* a sequence without its repeated elements (the first occurrence stays)
RECURSIVE Dedup(_)
Dedup(s) ==
    IF s = <<>> THEN <<>>
    ELSE LET front == Dedup(SubSeq(s, 1, Len(s) - 1))
             last == s[Len(s)]
         IN IF last \in Range(front) THEN front ELSE Append(front, last)

Times(e, s) == Cardinality({k \in 1..Len(s) : s[k] = e})

\* the table and the error count after the projection has handled events, one by one
RECURSIVE Replay(_, _, _)
Replay(db, unique, events) ==
    IF events = <<>> THEN db
    ELSE LET r == project(db.rows, unique, Head(events))
         IN Replay([rows |-> r.rows,
                    errors |-> IF r.error = None THEN db.errors ELSE db.errors + 1],
                   unique, Tail(events))

EmptyDb == [rows |-> <<>>, errors |-> 0]

\* the indices of the events of command c that the store holds
StoredOf(c) ==
    {k \in 1..Len(handlers[c].events) :
        handlers[c].events[k] \in Range(event_store[handlers[c].order.id])}

C3_ProjectionIdempotent ==
    [rows |-> order_summary, errors |-> projection_errors]
        = Replay(EmptyDb, unique_id, Dedup(delivered))

\* C4: whatever the order in which the events of an order are delivered, once
\* each, the order's row is the one that applying them in ascending sequence
\* order gives: an event ahead of the row is not applied before the missing ones.
C4_AnyDeliveryOrderGivesAscendingRow ==
    \A id \in 1..MaxCmds :
        (/\ event_store[id] # <<>>
         /\ \A e \in Range(event_store[id]) : Times(e, delivered) = 1)
            => RowsOf(order_summary, id) = Replay(EmptyDb, unique_id, event_store[id]).rows

\* C5: when the events of an order have been applied one by one in the order
\* of their appends, the order's row is the row a rebuild gives, that is the
\* replay of the stream from sequence 1 into an empty read model.
C5_IncrementalEqualsRebuild ==
    \A id \in 1..MaxCmds : \A k \in 0..Len(event_store[id]) :
        DeliveredTo(id) = SubSeq(event_store[id], 1, k)
            => RowsOf(order_summary, id)
                   = Replay(EmptyDb, unique_id, SubSeq(event_store[id], 1, k)).rows

\* both events of an order applied in order, another order's event in between
C5_Witness ==
    \E id \in 1..MaxCmds :
        /\ Len(event_store[id]) = 2
        /\ DeliveredTo(id) = event_store[id]
        /\ Len(delivered) = 3
        /\ delivered[2].order_id # id
        /\ Len(RowsOf(order_summary, id)) = 1
        /\ RowsOf(order_summary, id)[1].status = "confirmed"

\* C10: no step of handle changes the order_summary table, every change of
\* the table is a delivery to the projection, and get_order_summary changes
\* neither the table nor the event store.
C10_ReadModelWrittenByProjectionOnly ==
    [][/\ handlers' # handlers => order_summary' = order_summary
       /\ order_summary' # order_summary => delivered' # delivered
       /\ query_result'.order_id # 0
              => order_summary' = order_summary /\ event_store' = event_store]_vars

\* a command has returned, its event is stored, and the query finds no row yet
C10_Witness ==
    \E c \in 1..MaxCmds :
        /\ handlers[c].pc = "done"
        /\ event_store[handlers[c].order.id] # <<>>
        /\ order_summary = <<>>
        /\ query_result = [order_id |-> handlers[c].order.id, result |-> NoSummary]

\* ---------------------------------------------------- eventual consistency
\* the event loop runs a coroutine that is ready: a handle that has not ended
\* takes its next step
HandlerStep == \E c \in 1..MaxCmds : handle_save(c) \/ handle_append(c)

\* at-least-once delivery: an event of the store that the projection has not
\* seen yet is delivered
DeliverFirst ==
    \E event \in StoredEvents : event \notin Range(delivered) /\ deliver(event)

SpecLive == Init /\ [][Next]_vars /\ WF_vars(HandlerStep) /\ WF_vars(DeliverFirst)

\* the status the stream of an order gives
StreamStatus(id) ==
    IF \E k \in 1..Len(event_store[id]) : event_store[id][k].type = "OrderConfirmed"
    THEN "confirmed" ELSE "created"

AllDelivered == StoredEvents \subseteq Range(delivered)

Converged ==
    \A id \in 1..MaxCmds :
        event_store[id] # <<>>
            => /\ RowsOf(order_summary, id) # <<>>
               /\ \A row \in Range(RowsOf(order_summary, id)) : row.status = StreamStatus(id)

\* C11: when from some point on every event of the store has been delivered
\* to the projection (so no command appends any more), then from some point
\* on the read model holds, for every order with an OrderCreated event, a row
\* with the status its stream gives.
C11_EventuallyConsistent == <>[]AllDelivered => <>[]Converged

\* C12: a call of get_order_summary returns None when the table holds no row
\* of the order id asked for, and returns a summary carrying that id when
\* the table holds a row of it.
C12_SummaryExactlyWhenRowExists ==
    query_result.order_id # 0 =>
        LET id == query_result.order_id
        IN /\ RowsOf(order_summary, id) = <<>> => query_result.result = NoSummary
           /\ RowsOf(order_summary, id) # <<>>
                  => query_result.result # NoSummary /\ query_result.result.id = id

\* ------------------------------------------------------ the streams' numbering
SequenceNumbersAreIndices ==
    \A a \in DOMAIN event_store :
        \A k \in 1..Len(event_store[a]) : event_store[a][k].sequenceNumber = k

StreamsOnlyGrow ==
    \A a \in DOMAIN event_store :
        /\ Len(event_store'[a]) >= Len(event_store[a])
        /\ SubSeq(event_store'[a], 1, Len(event_store[a])) = event_store[a]

\* C13: in every reachable state the k-th event of each stream carries
\* sequence number k (so the numbers are 1..n without gap or duplicate), and
\* every step leaves the events a stream already held in place, unchanged.
C13_GapFreeAppendOnlyStreams ==
    []SequenceNumbersAreIndices /\ [][StreamsOnlyGrow]_vars

\* a stream filled to its bound by two appends, with a caller that lost a race
C13_Witness ==
    \E a \in StoreAggregates :
        /\ Len(event_store[a]) = MaxStreamLen
        /\ Cardinality({t \in attempts : t.aggregateId = a /\ t.error = None}) >= 2
        /\ \E t \in attempts : t.aggregateId = a /\ t.error = "ConcurrencyConflict"

\* ------------------------------------------------------------ process_order
\* C15: the step in which a call of process_order learns that the payment
\* failed ends the call with PaymentError and changes neither the order nor
\* what the repository holds, sends no notification and creates no charge;
\* the call takes no further step.
C15_PaymentFailureLeavesOrderUnchanged ==
    [][\A p \in 1..MaxCalls :
          /\ (calls[p] = "paying" /\ calls'[p] = "PaymentError")
                 => /\ svc_order' = svc_order
                    /\ svc_repo' = svc_repo
                    /\ notifications' = notifications
                    /\ charges' = charges
          /\ calls[p] = "PaymentError" => calls'[p] \in {"PaymentError", "idle"}]_vars

\* the only call made has ended with PaymentError: the order is as created,
\* the repository holds it unconfirmed, nothing was charged or sent
C15_Witness ==
    /\ \E p \in 1..MaxCalls :
          /\ calls[p] = "PaymentError"
          /\ \A q \in 1..MaxCalls \ {p} : calls[q] = "idle"
    /\ retries = 0
    /\ svc_order.status = "CREATED" /\ svc_order.items # <<>>
    /\ svc_repo = svc_order
    /\ notifications = 0 /\ charges = 0

\* C16: the order is saved as confirmed only after a payment for it
\* succeeded, a notification is sent only when the confirmed order has been
\* saved, and once no call of process_order is in flight an order whose
\* payment succeeded is saved as confirmed.
C16_PaidThenConfirmedSavedNotified ==
    /\ svc_repo.status = "CONFIRMED" => charges >= 1
    /\ notifications >= 1 => svc_repo.status = "CONFIRMED"
    /\ (charges >= 1 /\ \A p \in 1..MaxCalls :
                            calls[p] \in {"idle", "done", "PaymentError", "OrderError"})
           => svc_repo.status = "CONFIRMED"

\* ======================================================================
\* SpecApp: the layered example. OrderApplicationService.create_order runs
\* once per call as a coroutine that yields at its awaits; each call works
\* in its own unit of work. The order of call p gets the uuid p.
\* ======================================================================
\* the CreateOrderCommand values: each customer with no, one and two items
AppCommands ==
    {[customer_id |-> c, items |-> items] :
        c \in Customers,
        items \in {<<>>, <<OrderItem("p1", 2, 10)>>,
                   <<OrderItem("p1", 2, 10), OrderItem("p2", 3, 7)>>}}

InitApp ==
    /\ AppIdle
    /\ order = NoOrder
    /\ lastCall = [op |-> "none", arg |-> <<>>, pre |-> NoOrder, error |-> None]
    /\ event_store = EmptyStore
    /\ CqrsIdle /\ StoreIdle /\ ServiceIdle /\ MonitorIdle

\* CustomerRepository.find_by_id: the customer, or None
find_by_id(customer_id) == IF customer_id \in KnownCustomers THEN customer_id ELSE None

\* create_order, lines 38-41: the unit of work is entered and find_by_id awaited
create_order(p, command) ==
    /\ app_calls[p].pc = "idle"
    /\ app_calls' = [app_calls EXCEPT ![p] = [pc |-> "find", command |-> command, order |-> NoOrder]]
    /\ UNCHANGED <<app_pending, app_committed, app_commits>>
    /\ UNCHANGED <<orderVars, event_store, cqrsVars, storeVars, svcVars, monVars>>

\* a mutant: the customer found is not looked at
find_done_unchecked(p) ==
    /\ app_calls[p].pc = "find"
    /\ LET command == app_calls[p].command
       IN app_calls' = [app_calls EXCEPT ![p] =
              [@ EXCEPT !.pc = "save",
                        !.order = create(p, command.customer_id, command.items).order]]
    /\ UNCHANGED <<app_pending, app_committed, app_commits>>
    /\ UNCHANGED <<orderVars, event_store, cqrsVars, storeVars, svcVars, monVars>>

\* create_order, lines 42-57: find_by_id answers; without a customer the call
\* raises CustomerNotFoundError and leaves the unit of work, else the order
\* is created and save awaited
find_done(p) ==
    /\ app_calls[p].pc = "find"
    /\ LET command == app_calls[p].command
           customer == find_by_id(command.customer_id)
       IN app_calls' = [app_calls EXCEPT ![p] =
              IF customer = None THEN [@ EXCEPT !.pc = "CustomerNotFoundError"]
              ELSE [@ EXCEPT !.pc = "save",
                             !.order = create(p, customer, command.items).order]]
    /\ UNCHANGED <<app_pending, app_committed, app_commits>>
    /\ UNCHANGED <<orderVars, event_store, cqrsVars, storeVars, svcVars, monVars>>

\* create_order, lines 57-58: save completes and commit is awaited
app_save_done(p) ==
    /\ app_calls[p].pc = "save"
    /\ app_pending' = app_pending \cup {app_calls[p].order}
    /\ app_calls' = [app_calls EXCEPT ![p].pc = "commit"]
    /\ UNCHANGED <<app_committed, app_commits>>
    /\ UNCHANGED <<orderVars, event_store, cqrsVars, storeVars, svcVars, monVars>>

\* create_order, lines 58-64: commit completes and the OrderResponse is returned
commit_done(p) ==
    /\ app_calls[p].pc = "commit"
    /\ app_committed' = app_committed \cup {o \in app_pending : o.id = p}
    /\ app_pending' = {o \in app_pending : o.id # p}
    /\ app_commits' = app_commits \cup {p}
    /\ app_calls' = [app_calls EXCEPT ![p].pc = "done"]
    /\ UNCHANGED <<orderVars, event_store, cqrsVars, storeVars, svcVars, monVars>>

NextApp ==
    \/ \E p \in 1..MaxAppCalls, command \in AppCommands : create_order(p, command)
    \/ \E p \in 1..MaxAppCalls : find_done(p)
    \/ \E p \in 1..MaxAppCalls : app_save_done(p)
    \/ \E p \in 1..MaxAppCalls : commit_done(p)

SpecApp == InitApp /\ [][NextApp]_vars

\* C17: a call of create_order for a customer id the customer repository
\* does not know ends with CustomerNotFoundError as soon as find_by_id has
\* answered, having created and saved no order and committed nothing; every
\* order saved or committed, and every commit, belongs to a call whose
\* customer exists.
C17_UnknownCustomerCreatesNothing ==
    /\ \A p \in 1..MaxAppCalls :
          LET h == app_calls[p]
              unknown == h.command.customer_id \notin KnownCustomers
          IN /\ (h.pc \notin {"idle", "find"} /\ unknown) => h.pc = "CustomerNotFoundError"
             /\ h.pc = "CustomerNotFoundError"
                    => /\ unknown
                       /\ h.order = NoOrder
                       /\ \A o \in app_pending \cup app_committed : o.id # p
                       /\ p \notin app_commits
             /\ p \in app_commits => ~unknown
    /\ \A o \in app_pending \cup app_committed : o.customer_id \in KnownCustomers

\* one call ended with CustomerNotFoundError while another, for a known
\* customer, saved its order and committed
C17_Witness ==
    \E p, q \in 1..MaxAppCalls :
        /\ app_calls[p].pc = "CustomerNotFoundError"
        /\ app_calls[q].pc = "done"
        /\ q \in app_commits
        /\ app_calls[q].order \in app_committed
        /\ app_calls[q].order.items # <<>>

\* ======================================================================
\* SpecMonitor: PerformanceMonitor.monitor_endpoint, called again and again,
\* as a coroutine that yields at its awaits. error_rate is in percent.
\* ======================================================================
\* PerformanceMonitor.__init__: self.thresholds
thresholds == [response_time |-> 300, error_rate |-> 1, throughput |-> 100]

\* the EndpointMetrics values collected: each field below, at and above its threshold
EndpointMetrics ==
    {[response_time |-> r, error_rate |-> e, throughput |-> t] :
        r \in {thresholds.response_time - 1, thresholds.response_time, thresholds.response_time + 1},
        e \in {thresholds.error_rate - 1, thresholds.error_rate, thresholds.error_rate + 1},
        t \in {thresholds.throughput - 1, thresholds.throughput, thresholds.throughput + 1}}

InitMonitor ==
    /\ MonitorIdle
    /\ order = NoOrder
    /\ lastCall = [op |-> "none", arg |-> <<>>, pre |-> NoOrder, error |-> None]
    /\ event_store = EmptyStore
    /\ CqrsIdle /\ StoreIdle /\ ServiceIdle /\ AppIdle

\* a mutant: metrics at a threshold alert too
should_alert_at_threshold(metrics) ==
    \/ metrics.response_time >= thresholds.response_time
    \/ metrics.error_rate >= thresholds.error_rate
    \/ metrics.throughput <= thresholds.throughput

\* PerformanceMonitor.should_alert
should_alert(metrics) ==
    \/ metrics.response_time > thresholds.response_time
    \/ metrics.error_rate > thresholds.error_rate
    \/ metrics.throughput < thresholds.throughput

\* PerformanceMonitor.send_alert: building the alert dict reads the name
\* endpoint, which is neither a parameter nor a variable of the method nor a
\* name of the module, so NameError is raised before alert_service.send
send_alert(alerts, metrics) == [error |-> "NameError", alerts |-> alerts]

\* monitor_endpoint is called (again, once the call before has ended);
\* collect_endpoint_metrics is awaited
monitor_endpoint ==
    /\ mon.pc \in {"idle", "returned", "Exception", "NameError"}
    /\ mon_runs < MaxRuns
    /\ mon_runs' = mon_runs + 1
    /\ mon' = [pc |-> "collect", metrics |-> NoMetrics, stored |-> FALSE,
               alert_due |-> FALSE, alerted |-> FALSE]
    /\ UNCHANGED <<stored_metrics, alerts_sent>>
    /\ UNCHANGED <<orderVars, event_store, cqrsVars, storeVars, svcVars, appVars>>

\* collect_endpoint_metrics returns the metrics, or raises; an exception is
\* logged and raised again by monitor_endpoint
collect_endpoint_metrics(metrics, ok) ==
    /\ mon.pc = "collect"
    /\ mon' = IF ok THEN [mon EXCEPT !.pc = "analyze", !.metrics = metrics]
              ELSE [mon EXCEPT !.pc = "Exception"]
    /\ UNCHANGED <<mon_runs, stored_metrics, alerts_sent>>
    /\ UNCHANGED <<orderVars, event_store, cqrsVars, storeVars, svcVars, appVars>>

\* analyze_performance returns, or raises
analyze_performance(ok) ==
    /\ mon.pc = "analyze"
    /\ mon' = [mon EXCEPT !.pc = IF ok THEN "store" ELSE "Exception"]
    /\ UNCHANGED <<mon_runs, stored_metrics, alerts_sent>>
    /\ UNCHANGED <<orderVars, event_store, cqrsVars, storeVars, svcVars, appVars>>

\* store_metrics returns, or raises; after it the coroutine runs on without
\* an await: should_alert decides, send_alert is called if an alert is due,
\* and the metrics are returned unless an exception was raised
store_metrics(ok) ==
    /\ mon.pc = "store"
    /\ IF ~ok
       THEN /\ mon' = [mon EXCEPT !.pc = "Exception"]
            /\ UNCHANGED <<stored_metrics, alerts_sent>>
       ELSE /\ stored_metrics' = stored_metrics + 1
            /\ IF should_alert(mon.metrics)
               THEN LET r == send_alert(alerts_sent, mon.metrics)
                    IN /\ alerts_sent' = r.alerts
                       /\ mon' = [mon EXCEPT !.stored = TRUE, !.alert_due = TRUE,
                                             !.alerted = (r.error = None),
                                             !.pc = IF r.error = None THEN "returned" ELSE r.error]
               ELSE /\ alerts_sent' = alerts_sent
                    /\ mon' = [mon EXCEPT !.stored = TRUE, !.pc = "returned"]
    /\ UNCHANGED mon_runs
    /\ UNCHANGED <<orderVars, event_store, cqrsVars, storeVars, svcVars, appVars>>

NextMonitor ==
    \/ monitor_endpoint
    \/ \E metrics \in EndpointMetrics, ok \in BOOLEAN : collect_endpoint_metrics(metrics, ok)
    \/ \E ok \in BOOLEAN : analyze_performance(ok)
    \/ \E ok \in BOOLEAN : store_metrics(ok)

SpecMonitor == InitMonitor /\ [][NextMonitor]_vars

\* C18: an alert is sent only for metrics that were stored; once the metrics
\* of a call are stored, an alert has been sent exactly if should_alert holds
\* of them, and the call has returned them.
C18_StoredAlertedReturned ==
    /\ mon.alerted => mon.stored
    /\ mon.stored => /\ mon.alerted <=> should_alert(mon.metrics)
                     /\ mon.pc = "returned"

\* C19: the decision should_alert took on the stored metrics is true exactly
\* when response_time is above 300, or error_rate above 1, or throughput
\* below 100.
C19_AlertExactlyBeyondThreshold ==
    mon.stored =>
        (mon.alert_due <=> \/ mon.metrics.response_time > 300
                           \/ mon.metrics.error_rate > 1
                           \/ mon.metrics.throughput < 100)

\* metrics with every field exactly at its threshold were stored and no alert was due
C19_Witness ==
    /\ mon.stored
    /\ mon.metrics = [response_time |-> 300, error_rate |-> 1, throughput |-> 100]
    /\ ~mon.alert_due
    /\ mon.pc = "returned"

====
